---- MODULE Spec2Model ----
(***************************************************************************)
(* Model of src/task3/task.py: reconciliation of two cluster rankings.     *)
(* main() parses two JSON payloads, wraps them in ClusterRanking objects,  *)
(* computes the contradiction core and builds the consistent ranking by    *)
(* merging pairwise relations, closing them transitively and layering the  *)
(* resulting graph.  Element labels are modelled as the integers           *)
(* 1..NumElems (Python sorts labels, the model sorts integers); a cluster  *)
(* is modelled as the set of its labels because the code only reads        *)
(* clusters through set.update and through membership iteration.           *)
(***************************************************************************)
EXTENDS Integers, Sequences, FiniteSets, TLC

\* ---- bounds ------------------------------------------------------------
NumElems == 3
MaxClusters1 == 2
MaxClusters2 == 2

Elems == 1..NumElems

VARIABLES json_str1, json_str2, pc, ranking1, ranking2, contradictions,
          all_elements, relations, graph, indegree, visited,
          result_clusters, output

vars == <<json_str1, json_str2, pc, ranking1, ranking2, contradictions,
          all_elements, relations, graph, indegree, visited,
          result_clusters, output>>

\* ---- generic helpers ---------------------------------------------------
Range(s) == {s[i] : i \in DOMAIN s}

Min(S) == CHOOSE x \in S : \A y \in S : x <= y

RECURSIVE sorted(_)
sorted(S) == IF S = {} THEN <<>> ELSE <<Min(S)>> \o sorted(S \ {Min(S)})

\* dict[key] = val
Put(m, key, val) == [x \in (DOMAIN m) \cup {key} |-> IF x = key THEN val ELSE m[x]]

\* the orders in which Python may iterate a set
Orders(S) == {f \in [1..Cardinality(S) -> S] : \A i, j \in 1..Cardinality(S) : i # j => f[i] # f[j]}

\* ---- inputs ------------------------------------------------------------
RankingsUpTo(n) == UNION {[1..k -> SUBSET Elems] : k \in 0..n}

\* A JSON payload: text that does not parse ("malformed"), JSON that is not
\* an object ("nondict"), an object without the "ranking" key ("nokey"), an
\* object whose ranking holds a non-iterable cluster ("noniter"), an object
\* whose labels have mixed, mutually unorderable types ("mixed"), or an
\* object with a ranking of clusters of labels ("ok").
BadKinds == {"malformed", "nondict", "nokey", "noniter", "mixed"}

Payloads(n) == [kind : BadKinds, ranking : {<<>>}] \cup [kind : {"ok"}, ranking : RankingsUpTo(n)]

\* ---- ClusterRanking ----------------------------------------------------
RECURSIVE extract_elements_from(_, _, _)
extract_elements_from(ranking, idx, elements) ==
    IF idx > Len(ranking) THEN elements
    ELSE extract_elements_from(ranking, idx + 1, elements \cup ranking[idx])

extract_elements(ranking) == extract_elements_from(ranking, 1, {})

\* cluster numbers are 0-based as with enumerate(); a later cluster
\* overwrites the entry of an earlier one
RECURSIVE build_cluster_map_from(_, _, _)
build_cluster_map_from(ranking, idx, cluster_map) ==
    IF idx > Len(ranking) THEN cluster_map
    ELSE build_cluster_map_from(ranking, idx + 1,
            [e \in (DOMAIN cluster_map) \cup ranking[idx] |->
                IF e \in ranking[idx] THEN idx - 1 ELSE cluster_map[e]])

build_cluster_map(ranking) == build_cluster_map_from(ranking, 1, <<>>)

ClusterRanking(ranking_data) ==
    LET ranking == IF ranking_data.kind = "nokey" THEN <<>> ELSE ranking_data.ranking
    IN [ranking |-> ranking,
        elements |-> extract_elements(ranking),
        cluster_map |-> build_cluster_map(ranking)]

NoRanking == [ranking |-> <<>>, elements |-> {}, cluster_map |-> <<>>]

get_relation(r, a, b) ==
    IF a \notin DOMAIN r.cluster_map \/ b \notin DOMAIN r.cluster_map THEN "?"
    ELSE IF r.cluster_map[a] = r.cluster_map[b] THEN "="
    ELSE IF r.cluster_map[a] < r.cluster_map[b] THEN "<"
    ELSE ">"

\* ---- find_contradictions -----------------------------------------------
\* faulty variant: every difference between two known relations counts
is_contradiction_any_difference(rel1, rel2) ==
    /\ rel1 # "?"
    /\ rel2 # "?"
    /\ rel1 # rel2

is_contradiction(rel1, rel2) ==
    /\ rel1 # "?"
    /\ rel2 # "?"
    /\ (rel1 = "<" /\ rel2 = ">") \/ (rel1 = ">" /\ rel2 = "<")

\* the loops "for i in range(n): for j in range(i + 1, n)" (1-based here)
RECURSIVE contradictions_from(_, _, _, _, _, _)
contradictions_from(r1, r2, elements, i, j, acc) ==
    IF i > Len(elements) THEN acc
    ELSE IF j > Len(elements) THEN contradictions_from(r1, r2, elements, i + 1, i + 2, acc)
    ELSE LET a == elements[i]
             b == elements[j]
         IN contradictions_from(r1, r2, elements, i, j + 1,
                IF is_contradiction(get_relation(r1, a, b), get_relation(r2, a, b))
                THEN Append(acc, <<a, b>>) ELSE acc)

find_contradictions(r1, r2) ==
    contradictions_from(r1, r2, sorted(r1.elements \cup r2.elements), 1, 2, <<>>)

\* ---- build_consistent_ranking: relation merge --------------------------
\* faulty variant: the second ranking wins a direct disagreement
merge_rule_second_wins(rel1, rel2) ==
    IF rel1 = rel2 /\ rel1 \in {"<", ">"} THEN rel1
    ELSE IF (rel1 = "=" /\ rel2 \in {"<", ">"}) \/ (rel2 = "=" /\ rel1 \in {"<", ">"})
         THEN (IF rel1 # "=" THEN rel1 ELSE rel2)
    ELSE IF (rel1 = "<" /\ rel2 = ">") \/ (rel1 = ">" /\ rel2 = "<") THEN rel2
    ELSE "none"

\* faulty variant: the branch for agreeing rankings is missing
merge_rule_without_agreement(rel1, rel2) ==
    IF (rel1 = "=" /\ rel2 \in {"<", ">"}) \/ (rel2 = "=" /\ rel1 \in {"<", ">"})
         THEN (IF rel1 # "=" THEN rel1 ELSE rel2)
    ELSE IF (rel1 = "<" /\ rel2 = ">") \/ (rel1 = ">" /\ rel2 = "<") THEN rel1
    ELSE "none"

\* faulty variant: the tie is recorded instead of the definite order
merge_rule_keeps_tie(rel1, rel2) ==
    IF rel1 = rel2 /\ rel1 \in {"<", ">"} THEN rel1
    ELSE IF (rel1 = "=" /\ rel2 \in {"<", ">"}) \/ (rel2 = "=" /\ rel1 \in {"<", ">"})
         THEN (IF rel1 = "=" THEN rel1 ELSE rel2)
    ELSE IF (rel1 = "<" /\ rel2 = ">") \/ (rel1 = ">" /\ rel2 = "<") THEN rel1
    ELSE "none"

\* the if/elif chain deciding the entry recorded for a pair; "none" stands
\* for falling through every branch (nothing recorded)
merge_rule(rel1, rel2) ==
    IF rel1 = rel2 /\ rel1 \in {"<", ">"} THEN rel1
    ELSE IF (rel1 = "=" /\ rel2 \in {"<", ">"}) \/ (rel2 = "=" /\ rel1 \in {"<", ">"})
         THEN (IF rel1 # "=" THEN rel1 ELSE rel2)
    ELSE IF (rel1 = "<" /\ rel2 = ">") \/ (rel1 = ">" /\ rel2 = "<") THEN rel1
    ELSE "none"

\* the loops "for i in range(n): for j in range(n)" over all_elements
RECURSIVE merge_relations_from(_, _, _, _, _, _)
merge_relations_from(r1, r2, elements, i, j, rels) ==
    IF i > Len(elements) THEN rels
    ELSE IF j > Len(elements) THEN merge_relations_from(r1, r2, elements, i + 1, 1, rels)
    ELSE IF i = j THEN merge_relations_from(r1, r2, elements, i, j + 1, rels)
    ELSE LET a == elements[i]
             b == elements[j]
             rel == merge_rule(get_relation(r1, a, b), get_relation(r2, a, b))
         IN merge_relations_from(r1, r2, elements, i, j + 1,
                IF rel = "none" THEN rels ELSE Put(rels, <<a, b>>, rel))

merge_relations(r1, r2, elements) == merge_relations_from(r1, r2, elements, 1, 1, <<>>)

\* ---- find_transitive_closure -------------------------------------------
has(closure, x, y, rel) == <<x, y>> \in DOMAIN closure /\ closure[<<x, y>>] = rel

\* faulty variant: the two branches write each other's relation
closure_step_swapped(closure, k, i, j) ==
    IF i = j THEN closure
    ELSE IF has(closure, i, k, "<") /\ has(closure, k, j, "<") THEN Put(closure, <<i, j>>, ">")
    ELSE IF has(closure, i, k, ">") /\ has(closure, k, j, ">") THEN Put(closure, <<i, j>>, "<")
    ELSE closure

closure_step(closure, k, i, j) ==
    IF i = j THEN closure
    ELSE IF has(closure, i, k, "<") /\ has(closure, k, j, "<") THEN Put(closure, <<i, j>>, "<")
    ELSE IF has(closure, i, k, ">") /\ has(closure, k, j, ">") THEN Put(closure, <<i, j>>, ">")
    ELSE closure

\* the three nested loops over the list "elements" (order); each loop binds
\* the map it has built so far as a value (c) before it goes on
\* "for j in elements" for fixed k and i
RECURSIVE closure_for_j(_, _, _, _, _)
closure_for_j(closure, order, k, i, jx) ==
    IF jx > Len(order) THEN closure
    ELSE CHOOSE result \in {closure_for_j(c, order, k, i, jx + 1) :
                               c \in {closure_step(closure, k, i, order[jx])}} : TRUE

\* "for i in elements" for fixed k
RECURSIVE closure_for_i(_, _, _, _)
closure_for_i(closure, order, k, ix) ==
    IF ix > Len(order) THEN closure
    ELSE CHOOSE result \in {closure_for_i(c, order, k, ix + 1) :
                               c \in {closure_for_j(closure, order, k, order[ix], 1)}} : TRUE

\* "for k in elements"
RECURSIVE closure_for_k(_, _, _)
closure_for_k(closure, order, kx) ==
    IF kx > Len(order) THEN closure
    ELSE CHOOSE result \in {closure_for_k(c, order, kx + 1) :
                               c \in {closure_for_i(closure, order, order[kx], 1)}} : TRUE

relation_elements(rels) == {p[1] : p \in DOMAIN rels} \cup {p[2] : p \in DOMAIN rels}

\* order is the iteration order of list(set(...)), which Python leaves open
find_transitive_closure(rels, order) == closure_for_k(rels, order, 1)

\* ---- build_consistent_ranking: graph and in-degrees --------------------
\* faulty variant: edges built from the ">" entries
build_graph_from_after(rels, elements) ==
    [u \in Range(elements) |-> {v \in Range(elements) : has(rels, u, v, ">")}]

\* graph is a defaultdict(set): an element without "<" entries maps to {}
build_graph(rels, elements) ==
    [u \in Range(elements) |-> {v \in Range(elements) : has(rels, u, v, "<")}]

build_indegree(g, elements) ==
    [v \in Range(elements) |-> Cardinality({u \in DOMAIN g : v \in g[u]})]

\* ---- build_consistent_ranking: layering --------------------------------
zero_indegree_of(elements, indeg, vis) ==
    LET ready(elem) == indeg[elem] = 0 /\ elem \notin vis
    IN SelectSeq(elements, ready)

\* "if not zero_indegree": the first element not yet visited, if any
stall_fallback(elements, vis) ==
    LET unvisited(elem) == elem \notin vis
        rest == SelectSeq(elements, unvisited)
    IN IF rest = <<>> THEN <<>> ELSE <<rest[1]>>

\* faulty variant: the in-degrees of the successors are never decremented
decrement_neighbors_forgotten(indeg, g, elem) == indeg

\* "for neighbor in graph[elem]: indegree[neighbor] -= 1"
decrement_neighbors(indeg, g, elem) ==
    [n \in DOMAIN indeg |-> IF n \in g[elem] THEN indeg[n] - 1 ELSE indeg[n]]

\* "for elem in zero_indegree": commit the layer
RECURSIVE place_layer(_, _, _, _, _, _)
place_layer(zero_indegree, idx, current_cluster, vis, indeg, g) ==
    IF idx > Len(zero_indegree)
    THEN [current_cluster |-> current_cluster, visited |-> vis, indegree |-> indeg]
    ELSE LET elem == zero_indegree[idx]
         IN IF elem \notin vis
            THEN place_layer(zero_indegree, idx + 1, Append(current_cluster, elem),
                             vis \cup {elem}, decrement_neighbors(indeg, g, elem), g)
            ELSE place_layer(zero_indegree, idx + 1, current_cluster, vis, indeg, g)

same_in_both(r1, r2, a, b) == get_relation(r1, a, b) = "=" /\ get_relation(r2, a, b) = "="

\* faulty variant: the last sub-cluster of a layer is never appended
flush_temp_forgotten(clustered_current, temp_cluster) == clustered_current

\* the trailing "if temp_cluster: clustered_current.append(temp_cluster)"
flush_temp(clustered_current, temp_cluster) ==
    IF temp_cluster # <<>> THEN Append(clustered_current, temp_cluster) ELSE clustered_current

\* "for elem in current_cluster": split the layer into sub-clusters
RECURSIVE group_layer(_, _, _, _, _, _)
group_layer(r1, r2, current_cluster, idx, clustered_current, temp_cluster) ==
    IF idx > Len(current_cluster) THEN flush_temp(clustered_current, temp_cluster)
    ELSE LET elem == current_cluster[idx]
         IN IF temp_cluster # <<>>
            THEN IF same_in_both(r1, r2, temp_cluster[Len(temp_cluster)], elem)
                 THEN group_layer(r1, r2, current_cluster, idx + 1, clustered_current,
                                  Append(temp_cluster, elem))
                 ELSE group_layer(r1, r2, current_cluster, idx + 1,
                                  Append(clustered_current, temp_cluster), <<elem>>)
            ELSE group_layer(r1, r2, current_cluster, idx + 1, clustered_current, <<elem>>)

\* ---- main: results and the except clauses ------------------------------
\* the two message prefixes of the except clauses ("parsing error", "processing error")
ParseFailure == [error |-> "JSON parsing error"]
ProcessingFailure == [error |-> "processing error"]
Raised == [raised |-> TRUE]
Pending == [pending |-> TRUE]

\* the exception classes the try block can raise, all subclasses of Exception
ExceptionClasses == {"JSONDecodeError", "AttributeError", "TypeError"}

\* faulty variant: the generic clause comes first and catches everything
except_clauses_generic_first(exc) ==
    IF exc \in ExceptionClasses THEN ProcessingFailure
    ELSE IF exc = "JSONDecodeError" THEN ParseFailure
    ELSE Raised

\* exc is the class of the exception raised inside the try block; a class
\* that no clause catches leaves main as a raised exception
except_clauses(exc) ==
    IF exc = "JSONDecodeError" THEN ParseFailure
    ELSE IF exc \in ExceptionClasses THEN ProcessingFailure
    ELSE Raised

\* faulty variant: an empty consistent ranking is reported as a failure
make_result_rejects_empty(contradictions_core, consistent_ranking) ==
    IF consistent_ranking = <<>> THEN ProcessingFailure
    ELSE [contradictions_core |-> contradictions_core, consistent_ranking |-> consistent_ranking]

make_result(contradictions_core, consistent_ranking) ==
    [contradictions_core |-> contradictions_core, consistent_ranking |-> consistent_ranking]

\* ---- state machine -----------------------------------------------------
Init ==
    /\ json_str1 \in Payloads(MaxClusters1)
    /\ json_str2 \in Payloads(MaxClusters2)
    /\ pc = "loads"
    /\ ranking1 = NoRanking
    /\ ranking2 = NoRanking
    /\ contradictions = <<>>
    /\ all_elements = <<>>
    /\ relations = <<>>
    /\ graph = <<>>
    /\ indegree = <<>>
    /\ visited = {}
    /\ result_clusters = <<>>
    /\ output = Pending

Fail(exc) ==
    /\ output' = except_clauses(exc)
    /\ pc' = "done"

\* data1 = json.loads(json_str1); data2 = json.loads(json_str2)
LoadJson ==
    /\ pc = "loads"
    /\ IF json_str1.kind = "malformed" \/ json_str2.kind = "malformed"
       THEN Fail("JSONDecodeError")
       ELSE pc' = "construct" /\ UNCHANGED output
    /\ UNCHANGED <<json_str1, json_str2, ranking1, ranking2, contradictions, all_elements,
                   relations, graph, indegree, visited, result_clusters>>

\* what the constructor raises for a payload, "none" if it succeeds:
\* a non-object has no .get, a non-iterable cluster breaks set.update
constructor_error(data) ==
    IF data.kind = "nondict" THEN "AttributeError"
    ELSE IF data.kind = "noniter" THEN "TypeError"
    ELSE "none"

\* ranking1 = ClusterRanking(data1); ranking2 = ClusterRanking(data2)
Construct ==
    /\ pc = "construct"
    /\ IF constructor_error(json_str1) # "none"
       THEN Fail(constructor_error(json_str1)) /\ UNCHANGED <<ranking1, ranking2>>
       ELSE IF constructor_error(json_str2) # "none"
       THEN /\ Fail(constructor_error(json_str2))
            /\ ranking1' = ClusterRanking(json_str1)
            /\ UNCHANGED ranking2
       ELSE /\ ranking1' = ClusterRanking(json_str1)
            /\ ranking2' = ClusterRanking(json_str2)
            /\ pc' = "contradictions"
            /\ UNCHANGED output
    /\ UNCHANGED <<json_str1, json_str2, contradictions, all_elements,
                   relations, graph, indegree, visited, result_clusters>>

\* contradictions = find_contradictions(ranking1, ranking2); sorted() raises
\* TypeError on labels of mixed types
FindContradictions ==
    /\ pc = "contradictions"
    /\ IF json_str1.kind = "mixed" \/ json_str2.kind = "mixed"
       THEN Fail("TypeError") /\ UNCHANGED contradictions
       ELSE /\ contradictions' = find_contradictions(ranking1, ranking2)
            /\ pc' = "merge"
            /\ UNCHANGED output
    /\ UNCHANGED <<json_str1, json_str2, ranking1, ranking2, all_elements,
                   relations, graph, indegree, visited, result_clusters>>

\* build_consistent_ranking up to the closure call: all_elements and the
\* merged relations (the graph and indegree filled here are rebuilt after
\* the closure and never read before)
MergeRelations ==
    /\ pc = "merge"
    /\ all_elements' = sorted(ranking1.elements \cup ranking2.elements)
    /\ relations' = merge_relations(ranking1, ranking2, all_elements')
    /\ pc' = "closure"
    /\ UNCHANGED <<json_str1, json_str2, ranking1, ranking2, contradictions,
                   graph, indegree, visited, result_clusters, output>>

\* relations = find_transitive_closure(relations), then graph, indegree,
\* result_clusters = [], visited = set()
CloseRelations ==
    /\ pc = "closure"
    /\ \E order \in Orders(relation_elements(relations)) :
          relations' = find_transitive_closure(relations, order)
    /\ graph' = build_graph(relations', all_elements)
    /\ indegree' = build_indegree(graph', all_elements)
    /\ visited' = {}
    /\ result_clusters' = <<>>
    /\ pc' = "layering"
    /\ UNCHANGED <<json_str1, json_str2, ranking1, ranking2, contradictions,
                   all_elements, output>>

\* faulty variant: the loop stops one element early
loop_condition_one_short == Cardinality(visited) + 1 < Len(all_elements)

loop_condition == Cardinality(visited) < Len(all_elements)

\* one iteration of "while len(visited) < len(all_elements)"
LayerStep ==
    /\ pc = "layering"
    /\ loop_condition
    /\ LET ready == zero_indegree_of(all_elements, indegree, visited)
           zero_indegree == IF ready = <<>> THEN stall_fallback(all_elements, visited) ELSE ready
           placed == place_layer(zero_indegree, 1, <<>>, visited, indegree, graph)
           clustered_current == group_layer(ranking1, ranking2, placed.current_cluster, 1, <<>>, <<>>)
       IN /\ visited' = placed.visited
          /\ indegree' = placed.indegree
          /\ result_clusters' = result_clusters \o clustered_current
    /\ UNCHANGED <<json_str1, json_str2, pc, ranking1, ranking2, contradictions,
                   all_elements, relations, graph, output>>

\* return result_clusters; main serialises the result
Return ==
    /\ pc = "layering"
    /\ ~loop_condition
    /\ output' = make_result(contradictions, result_clusters)
    /\ pc' = "done"
    /\ UNCHANGED <<json_str1, json_str2, ranking1, ranking2, contradictions, all_elements,
                   relations, graph, indegree, visited, result_clusters>>

Next ==
    \/ LoadJson
    \/ Construct
    \/ FindContradictions
    \/ MergeRelations
    \/ CloseRelations
    \/ LayerStep
    \/ Return

Spec == Init /\ [][Next]_vars

\* the loop is sequential code: an iteration that can run does run, and the
\* return after the loop is taken once the loop condition fails
FairSpec == Spec /\ WF_vars(LayerStep) /\ WF_vars(Return)

\* ---- vocabulary of the properties --------------------------------------
\* the two rankings as given in the payloads
In1 == json_str1.ranking
In2 == json_str2.ranking

Members(R) == UNION {R[i] : i \in DOMAIN R}
Union == Members(In1) \cup Members(In2)

\* the cluster a ranking assigns to a listed element: the one listing it,
\* the last one when the element is listed more than once
ClusterOf(R, e) == CHOOSE i \in DOMAIN R : e \in R[i] /\ \A k \in DOMAIN R : e \in R[k] => k <= i

Says(R, a, b) ==
    IF a \notin Members(R) \/ b \notin Members(R) THEN "UNKNOWN"
    ELSE IF ClusterOf(R, a) = ClusterOf(R, b) THEN "SAME"
    ELSE IF ClusterOf(R, a) < ClusterOf(R, b) THEN "BEFORE"
    ELSE "AFTER"

Symbol(says) == IF says = "BEFORE" THEN "<" ELSE ">"

\* non-empty, pairwise disjoint clusters
WellFormed(R) ==
    /\ \A i \in DOMAIN R : R[i] # {}
    /\ \A i, k \in DOMAIN R : i # k => R[i] \cap R[k] = {}

Success == pc = "done" /\ DOMAIN output = {"contradictions_core", "consistent_ranking"}
ContradictionsReturned == pc \in {"merge", "closure", "layering"} \/ Success
Closed == pc = "layering" \/ Success

\* the output clusters (0 or more) that list an element
Places(e) == {i \in DOMAIN result_clusters : e \in Range(result_clusters[i])}

RECURSIVE Flatten(_)
Flatten(clusters) == IF clusters = <<>> THEN <<>> ELSE Head(clusters) \o Flatten(Tail(clusters))

StrictlyBefore(a, b) ==
    /\ Places(a) # {}
    /\ Places(b) # {}
    /\ \A i \in Places(a), k \in Places(b) : i < k

NotAfter(a, b) ==
    /\ Places(a) # {}
    /\ Places(b) # {}
    /\ \A i \in Places(a), k \in Places(b) : i <= k

\* ---- C1 ----------------------------------------------------------------
Flipped(a, b) ==
    \/ Says(In1, a, b) = "BEFORE" /\ Says(In2, a, b) = "AFTER"
    \/ Says(In1, a, b) = "AFTER" /\ Says(In2, a, b) = "BEFORE"

\* C1: find_contradictions returns exactly the unordered pairs {a, b} of
\* distinct elements present in both rankings that one ranking orders a
\* before b and the other a after b; no returned pair has an element
\* missing from a ranking or is placed in one cluster by a ranking, and no
\* unordered pair is returned twice.
C1_ContradictionsExact ==
    ContradictionsReturned =>
        LET returned == {{c[1], c[2]} : c \in Range(contradictions)}
        IN /\ returned = {{q[1], q[2]} : q \in {p \in Elems \X Elems : p[1] # p[2] /\ Flipped(p[1], p[2])}}
           /\ Cardinality(returned) = Len(contradictions)
           /\ \A c \in Range(contradictions) :
                 /\ c[1] # c[2]
                 /\ {c[1], c[2]} \subseteq Members(In1) \cap Members(In2)
                 /\ Says(In1, c[1], c[2]) \notin {"SAME", "UNKNOWN"}
                 /\ Says(In2, c[1], c[2]) \notin {"SAME", "UNKNOWN"}

\* a flipped pair is returned next to a pair that one ranking ties
C1_Witness ==
    /\ pc = "merge"
    /\ Len(contradictions) >= 1
    /\ \E a, b \in Members(In1) \cap Members(In2) : a # b /\ Says(In1, a, b) = "SAME" /\ Says(In2, a, b) = "BEFORE"

\* ---- C2 ----------------------------------------------------------------
Policy(s1, s2) ==
    CASE s1 = "UNKNOWN" \/ s2 = "UNKNOWN" -> "none"
      [] s1 = "SAME" /\ s2 = "SAME" -> "none"
      [] s1 = "SAME" -> Symbol(s2)
      [] s2 = "SAME" -> Symbol(s1)
      [] OTHER -> Symbol(s1)

\* C2: before the closure, the entry recorded for every ordered pair of
\* distinct elements of the union follows the precedence policy: the agreed
\* direction, the direction of the ranking that does not say SAME, the first
\* ranking's direction on BEFORE vs AFTER, and no entry on UNKNOWN or on
\* SAME in both.
C2_MergePolicy ==
    pc = "closure" =>
        /\ DOMAIN relations \subseteq {q \in Union \X Union : q[1] # q[2]}
        /\ \A a, b \in Union : a # b =>
              LET expected == Policy(Says(In1, a, b), Says(In2, a, b))
              IN IF expected = "none" THEN <<a, b>> \notin DOMAIN relations
                 ELSE <<a, b>> \in DOMAIN relations /\ relations[<<a, b>>] = expected

\* a state holding a SAME-yields pair and a first-ranking-wins pair
C2_Witness ==
    /\ pc = "closure"
    /\ \E a, b \in Union : Says(In1, a, b) = "SAME" /\ Says(In2, a, b) = "AFTER" /\ relations[<<a, b>>] = ">"
    /\ \E a, b \in Union : Says(In1, a, b) = "BEFORE" /\ Says(In2, a, b) = "AFTER" /\ relations[<<a, b>>] = "<"

\* ---- C3 ----------------------------------------------------------------
\* C3: the relation map returned by find_transitive_closure is transitive
\* in the BEFORE direction.
C3_ClosureTransitive ==
    Closed =>
        \A a, b, c \in Elems :
            has(relations, a, b, "<") /\ has(relations, b, c, "<") => has(relations, a, c, "<")

C3_Witness ==
    /\ pc = "layering"
    /\ \E a, b, c \in Elems : has(relations, a, b, "<") /\ has(relations, b, c, "<") /\ has(relations, a, c, "<")

\* ---- C4 ----------------------------------------------------------------
\* C4: the consistent ranking lists every element of the union of both
\* rankings exactly once and nothing else.
C4_EveryElementOnce ==
    Success =>
        LET listed == Flatten(output.consistent_ranking)
        IN /\ Range(listed) = Union
           /\ Len(listed) = Cardinality(Union)

C4_Witness ==
    /\ Success
    /\ Union = Elems
    /\ Members(In1) # Union
    /\ Members(In2) # Union
    /\ Len(output.consistent_ranking) >= 2

\* ---- C5 ----------------------------------------------------------------
\* C5: whenever BEFORE(a, b) holds after the closure, a's output cluster is
\* not after b's, and strictly before it unless both rankings tie a and b.
C5_RespectsBefore ==
    Success =>
        \A a, b \in Elems : has(relations, a, b, "<") =>
            /\ NotAfter(a, b)
            /\ ~(Says(In1, a, b) = "SAME" /\ Says(In2, a, b) = "SAME") => StrictlyBefore(a, b)

C5_Witness ==
    /\ Success
    /\ \E a, b, c \in Elems : has(relations, a, b, "<") /\ has(relations, b, c, "<")
    /\ Len(contradictions) >= 1

\* ---- C6 ----------------------------------------------------------------
SelfMerge == json_str1.kind = "ok" /\ json_str2 = json_str1 /\ WellFormed(In1)

\* C6: merging a ranking of non-empty, pairwise disjoint clusters with
\* itself yields no contradictions and a consistent ranking with the same
\* clusters in the same order.
C6_SelfMergeIdentity ==
    (Success /\ SelfMerge) =>
        /\ output.contradictions_core = <<>>
        /\ Len(output.consistent_ranking) = Len(In1)
        /\ \A k \in DOMAIN In1 : Range(output.consistent_ranking[k]) = In1[k]

C6_Witness ==
    /\ Success
    /\ SelfMerge
    /\ Len(In1) = 2
    /\ \E k \in DOMAIN In1 : Cardinality(In1[k]) = 2

\* ---- C7 ----------------------------------------------------------------
OnlyIn(R, other, a, b) ==
    /\ {a, b} \subseteq Members(R)
    /\ {a, b} \cap Members(other) = {}
    /\ Says(R, a, b) = "BEFORE"

\* C7: elements that occur in only one ranking keep that ranking's relative
\* order: if that ranking puts a in an earlier cluster than b, the output
\* does not place b before a.
C7_UniqueKeepOrder ==
    Success =>
        \A a, b \in Elems : (OnlyIn(In1, In2, a, b) \/ OnlyIn(In2, In1, a, b)) => ~StrictlyBefore(b, a)

\* ---- C8 ----------------------------------------------------------------
Example2 ==
    /\ json_str1 = [kind |-> "ok", ranking |-> <<{1, 2}, {3}>>]
    /\ json_str2 = [kind |-> "ok", ranking |-> <<{2}, {1, 3}>>]

\* C8: when one ranking ties a and b and the other puts a before b, the
\* consistent ranking places a strictly before b; with x, y, z = 1, 2, 3 the
\* merge of [[x, y], [z]] and [[y], [x, z]] places y before x.
C8_TieYieldsToOrder ==
    Success =>
        /\ \A a, b \in Elems :
              (\/ Says(In1, a, b) = "SAME" /\ Says(In2, a, b) = "BEFORE"
               \/ Says(In1, a, b) = "BEFORE" /\ Says(In2, a, b) = "SAME") => StrictlyBefore(a, b)
        /\ Example2 => StrictlyBefore(2, 1)

C8_Witness == Success /\ Example2 /\ output.consistent_ranking = <<<<2>>, <<1>>, <<3>>>>

\* ---- C9 ----------------------------------------------------------------
EmptyInput == {json_str1.kind, json_str2.kind} \subseteq {"ok", "nokey"} /\ Union = {}

\* C9: with an empty union of elements find_contradictions returns the
\* empty list, build_consistent_ranking the empty ranking, and main the
\* normal output shape.
C9_EmptyInput ==
    EmptyInput =>
        /\ ContradictionsReturned => contradictions = <<>>
        /\ Closed => result_clusters = <<>>
        /\ pc = "done" => output = [contradictions_core |-> <<>>, consistent_ranking |-> <<>>]

C9_Witness == EmptyInput /\ pc = "done" /\ Len(In1) = 2 /\ json_str2.kind = "nokey"

\* ---- C10 ---------------------------------------------------------------
Unparseable == json_str1.kind = "malformed" \/ json_str2.kind = "malformed"
Unprocessable == {json_str1.kind, json_str2.kind} \cap {"nondict", "noniter", "mixed"} # {}

\* C10: main never raises; an unparseable input gives a payload with only
\* the error field carrying the parse-failure message, any other failure a
\* payload with only the error field carrying the processing-failure
\* message, and only a run without failure the two result fields.
C10_ErrorPayloads ==
    /\ "raised" \notin DOMAIN output
    /\ pc = "done" =>
          /\ Unparseable => DOMAIN output = {"error"} /\ output.error = "JSON parsing error"
          /\ (~Unparseable /\ Unprocessable) => DOMAIN output = {"error"} /\ output.error = "processing error"
          /\ (~Unparseable /\ ~Unprocessable) <=> DOMAIN output = {"contradictions_core", "consistent_ranking"}

\* the first payload parses but is unusable, the second does not parse
C10_Witness ==
    /\ pc = "done"
    /\ json_str1.kind = "nondict"
    /\ json_str2.kind = "malformed"
    /\ output = ParseFailure

\* ---- C11 ---------------------------------------------------------------
\* every element is listed in at most one cluster of the ranking
ListedOnce(R) == \A i, k \in DOMAIN R : i # k => R[i] \cap R[k] = {}

Unplaced == Range(all_elements) \ visited

\* C11: for rankings that list each element in at most one cluster, the
\* closed BEFORE graph has no cycle, and whenever the layering loop is about
\* to run an iteration some unplaced element has in-degree 0, so the stall
\* fallback is not taken.
C11_NoStall ==
    (pc = "layering" /\ ListedOnce(In1) /\ ListedOnce(In2)) =>
        /\ \A a, b \in Elems : ~(has(relations, a, b, "<") /\ has(relations, b, a, "<"))
        /\ \A a \in Elems : ~has(relations, a, a, "<")
        /\ loop_condition =>
              /\ \E e \in Unplaced : indegree[e] = 0
              /\ zero_indegree_of(all_elements, indegree, visited) # <<>>

\* a later iteration: a layer is placed, its successors are still unplaced
C11_Witness ==
    /\ pc = "layering"
    /\ ListedOnce(In1)
    /\ ListedOnce(In2)
    /\ visited # {}
    /\ Cardinality(Unplaced) >= 2
    /\ \E a \in visited, b \in Unplaced : has(relations, a, b, "<")
    /\ \E e \in Unplaced : indegree[e] > 0

\* ---- C12 ---------------------------------------------------------------
Iteration == pc = "layering" /\ pc' = "layering"

\* C12: the layering loop terminates: every iteration places at least one
\* unplaced element, a placed element stays placed and is appended to the
\* result only in the iteration that places it, and the loop is left
\* exactly when every element of the union is placed.
C12_LoopTerminates ==
    /\ [][Iteration => (visited \subseteq visited' /\ visited' # visited)]_vars
    /\ [][visited \subseteq visited']_vars
    /\ [][Iteration =>
            /\ SubSeq(result_clusters', 1, Len(result_clusters)) = result_clusters
            /\ Range(Flatten(result_clusters')) = visited'
            /\ Len(Flatten(result_clusters')) = Cardinality(visited')]_vars
    /\ [][(pc = "layering" /\ pc' # "layering") <=> (pc = "layering" /\ visited = Union)]_vars
    /\ [](pc = "layering" => visited \subseteq Union)
    /\ (pc = "layering") ~> (pc = "done")

\* a run of three iterations that has left the loop
C12_Witness ==
    /\ Success
    /\ visited = Elems
    /\ Len(result_clusters) = 3
    /\ \E a, b, c \in Elems : has(relations, a, b, "<") /\ has(relations, b, c, "<")

\* ---- C13 ---------------------------------------------------------------
\* C13: elements that both rankings put in one cluster end up in one
\* cluster of the consistent ranking, whatever else is placed in the layer.
C13_TiedStayTogether ==
    Success =>
        \A a, b \in Elems :
            (Says(In1, a, b) = "SAME" /\ Says(In2, a, b) = "SAME") =>
                (Places(a) # {} /\ Places(a) = Places(b))

====
